---- MODULE Spec2Model ----
(***************************************************************************)
(* gabstv/correios: the freight calculation CalcularFrete, its request     *)
(* builders and the process-wide configuration, as a state machine.        *)
(*                                                                         *)
(* One CalcularFrete call is a sequence of steps separated by the points   *)
(* where the code blocks on the network: issuing http.Client.Do, Do        *)
(* returning the response headers, io.Copy finishing the body.  The        *)
(* carrier, the network, the clock and the caller's context are the        *)
(* environment.                                                            *)
(***************************************************************************)
EXTENDS Integers, Sequences, FiniteSets, TLC

VARIABLES
    req,      \* the caller's *FreteRequest
    cfg,      \* process-wide FreteEndpoint, FallbackFunc, AlwaysUseFallback, GlobalTimeout
    ctx,      \* the caller's context: has a deadline, is done
    arg,      \* what the caller passed to CalcularFrete: "req" or "nil"
    pc,       \* "idle", "do" (in http.Client.Do), "body" (in io.Copy), "done"
    reqs,     \* the fan-out clones; <<>> on the single-call path
    i,        \* index into reqs of the running sub-call (1-based), 0 otherwise
    r00,      \* the fan-out aggregate map
    net,      \* query parameters of the network call in flight
    status,   \* HTTP status of the response in flight, 0 before the headers
    elapsed,  \* clock ticks since the network call in flight was issued
    sent,     \* history: parameters of every network call issued, in order
    log,      \* history: every network call that returned, in order
    ret,      \* what CalcularFrete returned: [rsp, err]
    rrbuf,    \* observed: what io.Copy buffered in the last network call
    built,    \* observed: the ServicoResponse built for each cServico, in order
    stdout,   \* observed: the lines the call wrote to standard output
    charset,  \* the charset name a document declares
    input,    \* the bytes of the reader handed to CharsetReader
    pos,      \* how many bytes of input have been read
    reader,   \* what CharsetReader returned: "unset", "input", "iso88591", "nil"
    rerr,     \* the error CharsetReader returned, <<>> for nil
    buf,      \* CharsetISO88591er.buf: the bytes written and not yet read
    delivered, \* history: the bytes the returned reader has delivered
    rderr     \* the error of the last read of the returned reader, "" for nil

seenVars == <<rrbuf, built, stdout>>
csVars == <<charset, input, pos, reader, rerr, buf, delivered, rderr>>

vars == <<req, cfg, ctx, arg, pc, reqs, i, r00, net, status, elapsed, sent, log, ret,
          seenVars, csVars>>

---------------------------------------------------------------------------
\* Bounds of the model.

\* Longest Servicos list a caller builds.
MaxServicos == 2
\* Most cServico elements in one carrier document.
MaxRecs == 2

---------------------------------------------------------------------------
\* Program constants.

RequestModeAuto == 0
RequestModeSingle == 1
RequestModeCombined == 2
Modes == {RequestModeAuto, RequestModeSingle, RequestModeCombined}

SvcSEDEXVarejo == "04014"
SvcPACVarejo == "04510"
SvcSEDEX10Varejo == "40215"
Services == {SvcSEDEXVarejo, SvcPACVarejo, SvcSEDEX10Varejo}

\* The values a caller or the environment chooses from.
Empresas == {"", "08082650"}
NoFunc == "nil"
Funcs == {NoFunc, "stub"}
Timeouts == {0, 1}
HTTPStatuses == {200, 500}

SeqsUpTo(S, n) == UNION {[1..k -> S] : k \in 0..n}

---------------------------------------------------------------------------
\* Errors.  An error value remembers the network call that produced it
\* (0: none), so that two calls never return the same error value.

NoErr == [kind |-> "", call |-> 0]
Err(kind, k) == [kind |-> kind, call |-> k]
ErrNilRequest == Err("nil request", 0)

---------------------------------------------------------------------------
\* Text.  Carrier fields are sequences of one-character strings.

Digits == {"0", "1", "2", "3", "4", "5", "6", "7", "8", "9"}

DigitVal(c) ==
    CASE c = "0" -> 0 [] c = "1" -> 1 [] c = "2" -> 2 [] c = "3" -> 3
      [] c = "4" -> 4 [] c = "5" -> 5 [] c = "6" -> 6 [] c = "7" -> 7
      [] c = "8" -> 8 [] c = "9" -> 9

RECURSIVE DigitsVal(_)
DigitsVal(s) ==
    IF s = <<>> THEN 0
    ELSE 10 * DigitsVal(SubSeq(s, 1, Len(s) - 1)) + DigitVal(s[Len(s)])

AllDigits(s) == \A k \in 1..Len(s) : s[k] \in Digits

\* fixWrongDecimals: strings.Replace(ds, ",", ".", -1)
fixWrongDecimals(ds) == [k \in 1..Len(ds) |-> IF ds[k] = "," THEN "." ELSE ds[k]]

\* The decimal zero value.
DecimalZero == [value |-> 0, exp |-> 0]

Dots(s) == {k \in 1..Len(s) : s[k] = "."}

\* decimal.NewFromString on an unsigned literal without exponent: digits with
\* at most one period; [ok, d] with d the zero Decimal on a parse error.
NewFromString(s) ==
    LET body == IF s # <<>> /\ s[1] \in {"-", "+"} THEN Tail(s) ELSE s
        neg  == s # <<>> /\ s[1] = "-"
        dots == Dots(body)
        int  == IF dots = {} THEN body
                ELSE SubSeq(body, 1, (CHOOSE k \in dots : TRUE) - 1)
        frac == IF dots = {} THEN <<>>
                ELSE SubSeq(body, (CHOOSE k \in dots : TRUE) + 1, Len(body))
        good == /\ Cardinality(dots) <= 1
                /\ Len(int) + Len(frac) > 0
                /\ AllDigits(int) /\ AllDigits(frac)
        mag  == DigitsVal(int \o frac)
    IN  IF good
        THEN [ok |-> TRUE,
              d  |-> [value |-> IF neg THEN 0 - mag ELSE mag, exp |-> 0 - Len(frac)]]
        ELSE [ok |-> FALSE, d |-> DecimalZero]

\* encoding/xml on an int field: the empty text leaves 0, otherwise
\* strconv.ParseInt(text, 10, 64); [ok, n].
ParseInt(s) ==
    LET body == IF s # <<>> /\ s[1] \in {"-", "+"} THEN Tail(s) ELSE s
        neg  == s # <<>> /\ s[1] = "-"
    IN  IF s = <<>> THEN [ok |-> TRUE, n |-> 0]
        ELSE IF body # <<>> /\ AllDigits(body)
        THEN [ok |-> TRUE, n |-> IF neg THEN 0 - DigitsVal(body) ELSE DigitsVal(body)]
        ELSE [ok |-> FALSE, n |-> 0]

\* Mutant of Join: the separator is left out.
RECURSIVE Join_NoSeparator(_)
Join_NoSeparator(svcs) ==
    IF svcs = <<>> THEN "" ELSE svcs[1] \o Join_NoSeparator(Tail(svcs))

\* strings.Join(svcs, ",")
RECURSIVE Join(_)
Join(svcs) ==
    IF svcs = <<>> THEN ""
    ELSE IF Len(svcs) = 1 THEN svcs[1]
    ELSE svcs[1] \o "," \o Join(Tail(svcs))

---------------------------------------------------------------------------
\* Requests.

\* NewFreteRequest: the defaults (Mode and CdEmpresa are Go zero values).
NewFreteRequest ==
    [Servicos  |-> <<SvcSEDEXVarejo, SvcPACVarejo>>,
     CdEmpresa |-> "",
     Mode      |-> RequestModeAuto]

\* FreteRequest.SetServicos: a fresh list, then every argument appended.
RECURSIVE AppendEach(_, _)
AppendEach(acc, srvs) ==
    IF srvs = <<>> THEN acc ELSE AppendEach(Append(acc, Head(srvs)), Tail(srvs))

SetServicosOf(r, srvs) == [r EXCEPT !.Servicos = AppendEach(<<>>, srvs)]

\* FreteRequest.AppendServico: nothing when srv is already listed.
AppendServicoOf(r, srv) ==
    IF \E k \in 1..Len(r.Servicos) : r.Servicos[k] = srv
    THEN r
    ELSE [r EXCEPT !.Servicos = Append(r.Servicos, srv)]

\* Mutant of FanOutCond: the Single mode is not honoured.
FanOutCond_AutoOnly(r) ==
    /\ Len(r.Servicos) > 1
    /\ r.Mode = RequestModeAuto /\ r.CdEmpresa = ""

\* The condition under which CalcularFrete fans out.
FanOutCond(r) ==
    /\ Len(r.Servicos) > 1
    /\ \/ (r.Mode = RequestModeAuto /\ r.CdEmpresa = "")
       \/ r.Mode = RequestModeSingle

\* Mutant of Clone: the clone keeps the whole service list.
Clone_WholeList(r, k) ==
    [Servicos  |-> r.Servicos,
     CdEmpresa |-> r.CdEmpresa,
     Mode      |-> RequestModeAuto]

\* The clone for the k-th service: Mode is not copied and stays the zero value.
Clone(r, k) ==
    [Servicos  |-> <<r.Servicos[k]>>,
     CdEmpresa |-> r.CdEmpresa,
     Mode      |-> RequestModeAuto]

Clones(r) == [k \in 1..Len(r.Servicos) |-> Clone(r, k)]

\* The query parameters that depend on the modelled request fields; the
\* account code is set only when CdEmpresa is not empty.
NoParams == [nCdServico |-> "", nCdEmpresa |-> <<>>]

Params(r) ==
    [nCdServico |-> Join(r.Servicos),
     nCdEmpresa |-> IF r.CdEmpresa # "" THEN <<r.CdEmpresa>> ELSE <<>>]

---------------------------------------------------------------------------
\* Responses.

EmptyMap == [c \in {} |-> 0]
MapSet(m, k, v) == [x \in (DOMAIN m) \cup {k} |-> IF x = k THEN v ELSE m[x]]

\* A *FreteResponse: nil, or a struct holding the Servicos map.
NilResponse == [nil |-> TRUE, Servicos |-> EmptyMap]
Response(m) == [nil |-> FALSE, Servicos |-> m]

\* Mutant of ToServicoResponse: only a negative code counts as an error.
ToServicoResponse_NegativeOnly(v) ==
    [Tipo             |-> v.Codigo,
     Preco            |-> NewFromString(fixWrongDecimals(v.Valor)).d,
     PrazoEntregaDias |-> v.PrazoEntrega,
     Erro             |-> IF v.Erro < 0 THEN <<v.Erro>> ELSE <<>>,
     ErroMsg          |-> IF v.Erro < 0 THEN v.MsgErro ELSE ""]

\* One decoded cServico (servicoResp) becomes one ServicoResponse; a price
\* that does not parse leaves the zero Decimal; Erro is <<>> (nil) or <<code>>.
ToServicoResponse(v) ==
    [Tipo             |-> v.Codigo,
     Preco            |-> NewFromString(fixWrongDecimals(v.Valor)).d,
     PrazoEntregaDias |-> v.PrazoEntrega,
     Erro             |-> IF v.Erro # 0 THEN <<v.Erro>> ELSE <<>>,
     ErroMsg          |-> IF v.Erro # 0 THEN v.MsgErro ELSE ""]

\* The loop over vlov.Values: output.Servicos[v2.Tipo] = v2, in document order.
RECURSIVE BuildOutput(_, _)
BuildOutput(out, values) ==
    IF values = <<>> THEN out
    ELSE LET v2 == ToServicoResponse(Head(values))
         IN  BuildOutput(MapSet(out, v2.Tipo, v2), Tail(values))

\* Mutants of MergeInto: an entry already in the aggregate is kept; the
\* aggregate is replaced by the sub-call's map.
MergeInto_KeepFirst(agg, rsp) ==
    [x \in (DOMAIN agg) \cup (DOMAIN rsp) |->
        IF x \in DOMAIN agg THEN agg[x] ELSE rsp[x]]

MergeInto_Replace(agg, rsp) == rsp

\* The fan-out merge of one sub-call's response into the aggregate:
\* r00.Servicos[k2] = v2 for every entry.
MergeInto(agg, rsp) ==
    [x \in (DOMAIN agg) \cup (DOMAIN rsp) |->
        IF x \in DOMAIN rsp THEN rsp[x] ELSE agg[x]]

\* Mutant of FanOutStep: the first failing sub-call ends the loop.
FanOutStep_FailFast(agg, idx, n, rsp, err) ==
    IF err # NoErr
    THEN [done |-> TRUE, agg |-> agg, err |-> err]
    ELSE [done |-> (idx = n), agg |-> MergeInto(agg, rsp.Servicos), err |-> NoErr]

\* One iteration of the fan-out loop for sub-call idx of n, given what the
\* sub-call returned, and the return after the loop.
FanOutStep(agg, idx, n, rsp, err) ==
    IF err # NoErr /\ n = idx
    THEN [done |-> TRUE, agg |-> agg, err |-> err]
    ELSE IF err # NoErr
    THEN [done |-> FALSE, agg |-> agg, err |-> NoErr]
    ELSE [done |-> (idx = n), agg |-> MergeInto(agg, rsp.Servicos), err |-> NoErr]

---------------------------------------------------------------------------
\* The carrier's documents.

RecOK ==
    [Codigo |-> SvcSEDEXVarejo, Valor |-> <<"2", "3", ",", "5", "0">>,
     PrazoEntrega |-> <<"2">>, Erro |-> <<"0">>, MsgErro |-> ""]
RecCepInvalido ==
    [Codigo |-> SvcSEDEXVarejo, Valor |-> <<"0", ",", "0", "0">>,
     PrazoEntrega |-> <<"0">>, Erro |-> <<"-", "3">>,
     MsgErro |-> "CEP de destino invalido"]
RecAreaDeRisco ==
    [Codigo |-> SvcPACVarejo, Valor |-> <<"1", "8", ",", "1", "0">>,
     PrazoEntrega |-> <<"7">>, Erro |-> <<"0", "1", "1">>,
     MsgErro |-> "CEP inicial e final pertencentes a Area de Risco"]
RecOther ==
    [Codigo |-> SvcSEDEX10Varejo, Valor |-> <<"4", "1", ",", "0", "0">>,
     PrazoEntrega |-> <<"1">>, Erro |-> <<"0">>, MsgErro |-> ""]
RecBadPrazo ==
    [Codigo |-> SvcPACVarejo, Valor |-> <<"1", "8", ",", "1", "0">>,
     PrazoEntrega |-> <<"x">>, Erro |-> <<"0">>, MsgErro |-> ""]

RecSet == {RecOK, RecCepInvalido, RecAreaDeRisco, RecOther, RecBadPrazo}

\* A document: the name of its root element and its cServico children.
Docs ==
    {[root |-> "Servicos", recs |-> s] : s \in SeqsUpTo(RecSet, MaxRecs)}
        \cup {[root |-> "html", recs |-> <<>>]}

\* The document as the stream the body delivers: the root start tag, each
\* cServico element, the root end tag.
NoRec == [Codigo |-> "", Valor |-> <<>>, PrazoEntrega |-> <<>>, Erro |-> <<>>, MsgErro |-> ""]

Tokens(doc) ==
    <<[t |-> "start", name |-> doc.root, rec |-> NoRec]>>
        \o [k \in 1..Len(doc.recs) |-> [t |-> "rec", name |-> "cServico", rec |-> doc.recs[k]]]
        \o <<[t |-> "end", name |-> doc.root, rec |-> NoRec]>>

\* Mutant of DecodeFrom: a cServico whose int fields do not parse is skipped.
RECURSIVE DecodeFrom_SkipBad(_, _, _)
DecodeFrom_SkipBad(toks, k, acc) ==
    IF k > Len(toks) THEN [kind |-> "unexpected EOF", values |-> <<>>]
    ELSE IF toks[k].t = "end" THEN [kind |-> "", values |-> acc]
    ELSE LET rec   == toks[k].rec
             prazo == ParseInt(rec.PrazoEntrega)
             erro  == ParseInt(rec.Erro)
         IN  IF ~prazo.ok \/ ~erro.ok
             THEN DecodeFrom_SkipBad(toks, k + 1, acc)
             ELSE DecodeFrom_SkipBad(toks, k + 1,
                     Append(acc, [Codigo       |-> rec.Codigo,
                                  Valor        |-> rec.Valor,
                                  PrazoEntrega |-> prazo.n,
                                  Erro         |-> erro.n,
                                  MsgErro      |-> rec.MsgErro]))

\* xml.Decoder.Decode into vlov, on the buffered bytes: [kind, values] with
\* kind "" on success.
RECURSIVE DecodeFrom(_, _, _)
DecodeFrom(toks, k, acc) ==
    IF k > Len(toks) THEN [kind |-> "unexpected EOF", values |-> <<>>]
    ELSE IF toks[k].t = "end" THEN [kind |-> "", values |-> acc]
    ELSE LET rec   == toks[k].rec
             prazo == ParseInt(rec.PrazoEntrega)
             erro  == ParseInt(rec.Erro)
         IN  IF ~prazo.ok \/ ~erro.ok
             THEN [kind |-> "strconv", values |-> <<>>]
             ELSE DecodeFrom(toks, k + 1,
                     Append(acc, [Codigo       |-> rec.Codigo,
                                  Valor        |-> rec.Valor,
                                  PrazoEntrega |-> prazo.n,
                                  Erro         |-> erro.n,
                                  MsgErro      |-> rec.MsgErro]))

Decode(toks) ==
    IF toks = <<>> THEN [kind |-> "EOF", values |-> <<>>]
    ELSE IF toks[1].name # "Servicos"
    THEN [kind |-> "expected element type <Servicos>", values |-> <<>>]
    ELSE DecodeFrom(toks, 2, <<>>)

\* From the buffered body to what the network call returns: the response, or
\* nil and the kind of decoding error.
ParseBody(toks) ==
    LET d == Decode(toks)
    IN  IF d.kind # ""
        THEN [rsp |-> NilResponse, kind |-> d.kind]
        ELSE [rsp |-> Response(BuildOutput(EmptyMap, d.values)), kind |-> ""]

\* What a network call can return once the whole body was read, and once
\* io.Copy stopped after any number of tokens.
FullBodies == {Tokens(doc) : doc \in Docs}
CutBodies == UNION {{SubSeq(toks, 1, n) : n \in 0..Len(toks)} : toks \in FullBodies}
FullResults == {ParseBody(toks) : toks \in FullBodies}
CutResults == {ParseBody(toks) : toks \in CutBodies}

---------------------------------------------------------------------------
\* The state machine.

\* FreteEndpoint, named by the host of its URL.
FreteEndpoint == "ws.correios.com.br"
Configs ==
    [FreteEndpoint : {FreteEndpoint}, FallbackFunc : Funcs,
     AlwaysUseFallback : BOOLEAN, GlobalTimeout : Timeouts]
ZeroConfig ==
    [FreteEndpoint |-> FreteEndpoint, FallbackFunc |-> NoFunc,
     AlwaysUseFallback |-> FALSE, GlobalTimeout |-> 0]
NoRet == [rsp |-> NilResponse, err |-> NoErr]
InFlight == pc \in {"do", "body"}

callVars == <<arg, pc, reqs, i, r00, net, status, elapsed, sent, log, ret>>

\* Nothing was observed of a network call.
Unseen ==
    /\ rrbuf = <<>>
    /\ built = <<>>
    /\ stdout = <<>>

\* No document declared a charset: CharsetReader was not called.
NoReader ==
    /\ charset = <<>>
    /\ input = <<>>
    /\ pos = 0
    /\ reader = "unset"
    /\ rerr = <<>>
    /\ buf = <<>>
    /\ delivered = <<>>
    /\ rderr = ""

\* No call is running and no result is held.
Idle ==
    /\ arg = "req"
    /\ pc = "idle"
    /\ reqs = <<>>
    /\ i = 0
    /\ r00 = EmptyMap
    /\ net = NoParams
    /\ status = 0
    /\ elapsed = 0
    /\ sent = <<>>
    /\ log = <<>>
    /\ ret = NoRet

\* The process starts: the configuration variables hold their zero values,
\* the caller holds a fresh request and a context without a deadline.
Init ==
    /\ req = NewFreteRequest
    /\ cfg = ZeroConfig
    /\ ctx = [deadline |-> FALSE, done |-> FALSE]
    /\ Idle
    /\ Unseen
    /\ NoReader

\* The caller builds the request.
SetServicos ==
    /\ pc = "idle"
    /\ \E srvs \in SeqsUpTo(Services, MaxServicos) : req' = SetServicosOf(req, srvs)
    /\ UNCHANGED <<cfg, ctx, callVars, seenVars, csVars>>

AppendServico ==
    /\ pc = "idle"
    /\ Len(req.Servicos) < MaxServicos
    /\ \E srv \in Services : req' = AppendServicoOf(req, srv)
    /\ UNCHANGED <<cfg, ctx, callVars, seenVars, csVars>>

SetMode ==
    /\ pc = "idle"
    /\ \E m \in Modes : req' = [req EXCEPT !.Mode = m]
    /\ UNCHANGED <<cfg, ctx, callVars, seenVars, csVars>>

SetCdEmpresa ==
    /\ pc = "idle"
    /\ \E c \in Empresas : req' = [req EXCEPT !.CdEmpresa = c]
    /\ UNCHANGED <<cfg, ctx, callVars, seenVars, csVars>>

\* CalcularFrete(ctx, r) for a request r that does not fan out, up to
\* http.DefaultClient.Do: the query is built and the network call issued.
\* A sub-call whose request met the fan-out condition would fan out again.
Enter(r) ==
    /\ status' = 0
    /\ elapsed' = 0
    /\ IF FanOutCond(r)
       THEN /\ pc' = "nested"
            /\ UNCHANGED <<net, sent>>
       ELSE /\ pc' = "do"
            /\ net' = Params(r)
            /\ sent' = Append(sent, Params(r))

\* The caller calls CalcularFrete with its context and nil or its request:
\* what the call does up to its first network call, the caller's request
\* left aside.
CallSteps ==
    /\ pc = "idle"
    /\ \E a \in {"req", "nil"} :
        /\ arg' = a
        /\ IF a = "nil"
           THEN /\ pc' = "done"
                /\ ret' = [rsp |-> NilResponse, err |-> ErrNilRequest]
                /\ UNCHANGED <<reqs, i, net, status, elapsed, sent>>
           ELSE IF FanOutCond(req)
           THEN /\ reqs' = Clones(req)
                /\ i' = 1
                /\ ret' = NoRet
                /\ Enter(Clones(req)[1])
           ELSE /\ ret' = NoRet
                /\ Enter(req)
                /\ UNCHANGED <<reqs, i>>
    /\ UNCHANGED <<cfg, ctx, r00, log, seenVars, csVars>>

\* Mutant of Call: the fan-out narrows the caller's own Servicos list instead
\* of building clones.
Call_RewritesRequest ==
    /\ CallSteps
    /\ req' = IF FanOutCond(req)
              THEN [req EXCEPT !.Servicos = <<req.Servicos[Len(req.Servicos)]>>]
              ELSE req

\* The call reads the request it was given; the clones are new structs with
\* new one-element lists, and nothing is written through req.
Call ==
    /\ CallSteps
    /\ UNCHANGED req

\* The network call in flight returned (rsp, err): the single-call path
\* returns it; the fan-out loop handles it and issues the next sub-call or
\* returns the aggregate.
Returned(rsp, err) ==
    /\ log' = Append(log, [params |-> net, rsp |-> rsp, err |-> err])
    /\ IF reqs = <<>>
       THEN /\ pc' = "done"
            /\ ret' = [rsp |-> rsp, err |-> err]
            /\ net' = NoParams
            /\ status' = 0
            /\ elapsed' = 0
            /\ UNCHANGED <<i, r00, sent>>
       ELSE LET st == FanOutStep(r00, i, Len(reqs), rsp, err)
            IN  /\ r00' = st.agg
                /\ IF st.done
                   THEN /\ pc' = "done"
                        /\ ret' = [rsp |-> Response(st.agg), err |-> st.err]
                        /\ net' = NoParams
                        /\ status' = 0
                        /\ elapsed' = 0
                        /\ UNCHANGED <<i, sent>>
                   ELSE /\ i' = i + 1
                        /\ ret' = NoRet
                        /\ Enter(reqs[i + 1])
    /\ UNCHANGED <<req, cfg, ctx, arg, reqs>>

\* http.Client.Do fails: the network is down.
NetError ==
    /\ pc = "do"
    /\ ~ctx.done
    /\ Returned(NilResponse, Err("transport", Len(log) + 1))
    /\ UNCHANGED <<seenVars, csVars>>

\* http.Client.Do fails: the context is done.
NetAbort ==
    /\ pc = "do"
    /\ ctx.done
    /\ Returned(NilResponse, Err("context canceled", Len(log) + 1))
    /\ UNCHANGED <<seenVars, csVars>>

\* http.Client.Do returns the carrier's response, whatever its status;
\* io.Copy starts on the body.
NetHeaders ==
    /\ pc = "do"
    /\ ~ctx.done
    /\ \E st \in HTTPStatuses : status' = st
    /\ pc' = "body"
    /\ UNCHANGED <<req, cfg, ctx, arg, reqs, i, r00, net, elapsed, sent, log, ret>>
    /\ UNCHANGED <<seenVars, csVars>>

\* The result of decoding a buffered body, as the k-th network call returns it.
BodyReturned(r) ==
    Returned(r.rsp, IF r.kind = "" THEN NoErr ELSE Err(r.kind, Len(log) + 1))

\* io.Copy reads the body to its end; the document is decoded.
BodyDone ==
    /\ pc = "body"
    /\ ~ctx.done
    /\ \E r \in FullResults : BodyReturned(r)
    /\ UNCHANGED <<seenVars, csVars>>

\* io.Copy stops early, on a done context or a broken connection; its error
\* is dropped and what was buffered is decoded.
BodyCut ==
    /\ pc = "body"
    /\ \E r \in CutResults : BodyReturned(r)
    /\ UNCHANGED <<seenVars, csVars>>

\* The caller cancels the context, or its deadline passes.
Cancel ==
    /\ InFlight
    /\ ~ctx.done
    /\ ctx' = [ctx EXCEPT !.done = TRUE]
    /\ UNCHANGED <<req, cfg, callVars, seenVars, csVars>>

\* The clock advances while a network call is in flight; ticks are counted
\* until the call has been in flight for longer than GlobalTimeout.
Tick ==
    /\ InFlight
    /\ elapsed <= cfg.GlobalTimeout
    /\ elapsed' = elapsed + 1
    /\ UNCHANGED <<req, cfg, ctx, arg, pc, reqs, i, r00, net, status, sent, log, ret>>
    /\ UNCHANGED <<seenVars, csVars>>

\* The caller is done with the result and may build the next request.
Release ==
    /\ pc = "done"
    /\ arg' = "req"
    /\ pc' = "idle"
    /\ reqs' = <<>>
    /\ i' = 0
    /\ r00' = EmptyMap
    /\ net' = NoParams
    /\ status' = 0
    /\ elapsed' = 0
    /\ sent' = <<>>
    /\ log' = <<>>
    /\ ret' = NoRet
    /\ ctx' = [ctx EXCEPT !.done = FALSE]
    /\ rrbuf' = <<>>
    /\ built' = <<>>
    /\ stdout' = <<>>
    /\ UNCHANGED <<req, cfg, csVars>>

Next ==
    \/ SetServicos
    \/ AppendServico
    \/ SetMode
    \/ SetCdEmpresa
    \/ Call
    \/ NetError
    \/ NetAbort
    \/ NetHeaders
    \/ BodyDone
    \/ BodyCut
    \/ Cancel
    \/ Tick
    \/ Release

Spec == Init /\ [][Next]_vars

\* A process that set its configuration at start, a caller whose context may
\* carry a deadline, and the request of the README or of the package test.
InitCfg ==
    /\ req \in {NewFreteRequest, SetServicosOf(NewFreteRequest, <<SvcSEDEXVarejo>>)}
    /\ cfg \in Configs
    /\ ctx \in [deadline : BOOLEAN, done : {FALSE}]
    /\ Idle
    /\ Unseen
    /\ NoReader

NextCfg ==
    \/ Call
    \/ NetError
    \/ NetAbort
    \/ NetHeaders
    \/ BodyDone
    \/ BodyCut
    \/ Cancel
    \/ Tick
    \/ Release

SpecCfg == InitCfg /\ [][NextCfg]_vars

---------------------------------------------------------------------------
\* One network call watched from outside: the bytes io.Copy buffered, the
\* ServicoResponse built for every decoded cServico and what was written to
\* standard output are recorded next to what the call returns.

\* fmt.Println("CORREIOS: " + rrbuf.String())
Println(toks) == [prefix |-> "CORREIOS: ", text |-> toks]

\* From the buffered body toks to the return of the network call.
Seen(toks) ==
    LET d == Decode(toks)
    IN  /\ rrbuf' = toks
        /\ built' = IF d.kind = ""
                    THEN [k \in 1..Len(d.values) |-> ToServicoResponse(d.values[k])]
                    ELSE <<>>
        /\ stdout' = IF d.kind # "" THEN Append(stdout, Println(toks)) ELSE stdout
        /\ BodyReturned(ParseBody(toks))

\* io.Copy reads the body to its end; the document is decoded.
BodyDoneSeen ==
    /\ pc = "body"
    /\ ~ctx.done
    /\ \E toks \in FullBodies : Seen(toks)
    /\ UNCHANGED csVars

\* io.Copy stops early; its error is dropped and what was buffered is decoded.
BodyCutSeen ==
    /\ pc = "body"
    /\ \E toks \in CutBodies : Seen(toks)
    /\ UNCHANGED csVars

\* Requests that take the single-call path: the default request with
\* credentials, the default services in Combined mode in both orders, and
\* the one-service request of the package test.
DocRequests ==
    {[NewFreteRequest EXCEPT !.CdEmpresa = "08082650"],
     [NewFreteRequest EXCEPT !.Mode = RequestModeCombined],
     [SetServicosOf(NewFreteRequest, <<SvcPACVarejo, SvcSEDEXVarejo>>)
         EXCEPT !.Mode = RequestModeCombined],
     SetServicosOf(NewFreteRequest, <<SvcSEDEXVarejo>>)}

InitDoc ==
    /\ req \in DocRequests
    /\ cfg = ZeroConfig
    /\ ctx = [deadline |-> FALSE, done |-> FALSE]
    /\ Idle
    /\ Unseen
    /\ NoReader

NextDoc ==
    \/ Call
    \/ NetError
    \/ NetAbort
    \/ NetHeaders
    \/ BodyDoneSeen
    \/ BodyCutSeen
    \/ Cancel
    \/ Release

SpecDoc == InitDoc /\ [][NextDoc]_vars

---------------------------------------------------------------------------
\* The charset layer: CharsetReader picks a reader by the charset name a
\* document declares; CharsetISO88591er turns ISO-8859-1 bytes into UTF-8.
\* A charset name is a sequence of one-character strings.

\* Longest input handed to the reader.
MaxInput == 3

\* utf8.RuneSelf: bytes below it are single-byte runes.
RuneSelf == 128

UpperCase == <<"A", "B", "C", "D", "E", "F", "G", "H", "I", "J", "K", "L", "M", "N", "O", "P", "Q", "R", "S", "T", "U", "V", "W", "X", "Y", "Z">>
LowerCase == <<"a", "b", "c", "d", "e", "f", "g", "h", "i", "j", "k", "l", "m", "n", "o", "p", "q", "r", "s", "t", "u", "v", "w", "x", "y", "z">>

\* strings.ToLower on ASCII text.
ToLower(str) ==
    [k \in 1..Len(str) |->
        IF \E n \in 1..Len(UpperCase) : UpperCase[n] = str[k]
        THEN LowerCase[CHOOSE n \in 1..Len(UpperCase) : UpperCase[n] = str[k]]
        ELSE str[k]]

\* Mutant of isCharset: the declared name is compared as given.
isCharset_NoFold(name, names) ==
    \E n \in 1..Len(names) : name = ToLower(names[n])

\* isCharset: both sides are lower-cased and compared.
isCharset(name, names) ==
    \E n \in 1..Len(names) : ToLower(name) = ToLower(names[n])

NamesISO88591 ==
    <<<<"I", "S", "O", "_", "8", "8", "5", "9", "-", "1", ":", "1", "9", "8", "7">>,
      <<"I", "S", "O", "-", "8", "8", "5", "9", "-", "1">>,
      <<"i", "s", "o", "-", "i", "r", "-", "1", "0", "0">>,
      <<"I", "S", "O", "_", "8", "8", "5", "9", "-", "1">>,
      <<"l", "a", "t", "i", "n", "1">>,
      <<"l", "1">>,
      <<"I", "B", "M", "8", "1", "9">>,
      <<"C", "P", "8", "1", "9">>,
      <<"c", "s", "I", "S", "O", "L", "a", "t", "i", "n", "1">>>>

NamesUTF8 ==
    <<<<"U", "T", "F", "-", "8">>,
      <<>>>>

IsCharsetISO88591(name) == isCharset(name, NamesISO88591)
IsCharsetUTF8(name) == isCharset(name, NamesUTF8)

\* CharsetReader: the reader returned ("input": the input itself, "iso88591":
\* NewCharsetISO88591(input), "nil") and the error (<<>>: nil).
CharsetReaderOf(name) ==
    IF IsCharsetUTF8(name) THEN [reader |-> "input", err |-> <<>>]
    ELSE IF IsCharsetISO88591(name) THEN [reader |-> "iso88591", err |-> <<>>]
    ELSE [reader |-> "nil",
          err    |-> <<"CharsetReader: unexpected charset: ">> \o name]

\* Mutant of WriteRune: the byte is buffered as it is.
WriteRune_Raw(b, r) == b \o <<r>>

\* bytes.Buffer.WriteRune for a rune below 0x800: the rune itself below
\* RuneSelf, otherwise its two-byte UTF-8 encoding.
WriteRune(b, r) ==
    IF r < RuneSelf THEN b \o <<r>>
    ELSE b \o <<192 + (r \div 64), 128 + (r % 64)>>

\* The names documents declare, and the bytes and inputs they hold.
DeclaredNames ==
    {<<"I", "S", "O", "_", "8", "8", "5", "9", "-", "1", ":", "1", "9", "8", "7">>,
     <<"i", "s", "o", "_", "8", "8", "5", "9", "-", "1", ":", "1", "9", "8", "7">>,
     <<"I", "S", "O", "-", "8", "8", "5", "9", "-", "1">>,
     <<"i", "s", "o", "-", "8", "8", "5", "9", "-", "1">>,
     <<"i", "s", "o", "-", "i", "r", "-", "1", "0", "0">>,
     <<"I", "S", "O", "-", "I", "R", "-", "1", "0", "0">>,
     <<"I", "S", "O", "_", "8", "8", "5", "9", "-", "1">>,
     <<"i", "s", "o", "_", "8", "8", "5", "9", "-", "1">>,
     <<"l", "a", "t", "i", "n", "1">>,
     <<"L", "A", "T", "I", "N", "1">>,
     <<"l", "1">>,
     <<"L", "1">>,
     <<"I", "B", "M", "8", "1", "9">>,
     <<"i", "b", "m", "8", "1", "9">>,
     <<"C", "P", "8", "1", "9">>,
     <<"c", "p", "8", "1", "9">>,
     <<"c", "s", "I", "S", "O", "L", "a", "t", "i", "n", "1">>,
     <<"c", "s", "i", "s", "o", "l", "a", "t", "i", "n", "1">>,
     <<"C", "S", "I", "S", "O", "L", "A", "T", "I", "N", "1">>,
     <<"U", "T", "F", "-", "8">>,
     <<"u", "t", "f", "-", "8">>,
     <<>>,
     <<"S", "h", "i", "f", "t", "-", "J", "I", "S">>,
     <<"s", "h", "i", "f", "t", "-", "j", "i", "s">>,
     <<"S", "H", "I", "F", "T", "-", "J", "I", "S">>,
     <<"u", "t", "f", "8">>,
     <<"U", "T", "F", "8">>,
     <<"U", "T", "F", "-", "1", "6">>,
     <<"u", "t", "f", "-", "1", "6">>,
     <<"l", "a", "t", "i", "n", "-", "1">>,
     <<"L", "A", "T", "I", "N", "-", "1">>,
     <<"I", "S", "O", "-", "8", "8", "5", "9", "-", "1", "5">>,
     <<"i", "s", "o", "-", "8", "8", "5", "9", "-", "1", "5">>,
     <<"w", "i", "n", "d", "o", "w", "s", "-", "1", "2", "5", "2">>,
     <<"W", "I", "N", "D", "O", "W", "S", "-", "1", "2", "5", "2">>,
     <<"U", "t", "f", "-", "8">>,
     <<"L", "a", "t", "i", "n", "1">>}

Bytes == {65, 127, 128, 233, 255}
Inputs == SeqsUpTo(Bytes, MaxInput)

\* A document declaring a charset is about to be decoded.
InitCharset ==
    /\ req = NewFreteRequest
    /\ cfg = ZeroConfig
    /\ ctx = [deadline |-> FALSE, done |-> FALSE]
    /\ Idle
    /\ Unseen
    /\ charset \in DeclaredNames
    /\ input \in Inputs
    /\ pos = 0
    /\ reader = "unset"
    /\ rerr = <<>>
    /\ buf = <<>>
    /\ delivered = <<>>
    /\ rderr = ""

\* The decoder calls CharsetReader(charset, input).
CharsetReader ==
    /\ reader = "unset"
    /\ reader' = CharsetReaderOf(charset).reader
    /\ rerr' = CharsetReaderOf(charset).err
    /\ UNCHANGED <<charset, input, pos, buf, delivered, rderr>>
    /\ UNCHANGED <<req, cfg, ctx, callVars, seenVars>>

\* CharsetISO88591er.ReadByte.
ReadByte ==
    /\ reader = "iso88591"
    /\ rderr = ""
    /\ IF Len(buf) <= 0
       THEN IF pos = Len(input)
            THEN /\ rderr' = "EOF"
                 /\ UNCHANGED <<pos, buf, delivered>>
            ELSE LET r == input[pos + 1]
                 IN  /\ pos' = pos + 1
                     /\ rderr' = ""
                     /\ IF r < RuneSelf
                        THEN /\ delivered' = Append(delivered, r)
                             /\ UNCHANGED buf
                        ELSE /\ delivered' = Append(delivered, Head(WriteRune(buf, r)))
                             /\ buf' = Tail(WriteRune(buf, r))
       ELSE /\ delivered' = Append(delivered, Head(buf))
            /\ buf' = Tail(buf)
            /\ UNCHANGED <<pos, rderr>>
    /\ UNCHANGED <<charset, input, reader, rerr>>
    /\ UNCHANGED <<req, cfg, ctx, callVars, seenVars>>

\* The decoder reads a byte of the input itself, the reader CharsetReader
\* returned for UTF-8.
ReadInput ==
    /\ reader = "input"
    /\ rderr = ""
    /\ IF pos = Len(input)
       THEN /\ rderr' = "EOF"
            /\ UNCHANGED <<pos, delivered>>
       ELSE /\ pos' = pos + 1
            /\ delivered' = Append(delivered, input[pos + 1])
            /\ rderr' = ""
    /\ UNCHANGED <<charset, input, reader, rerr, buf>>
    /\ UNCHANGED <<req, cfg, ctx, callVars, seenVars>>

NextCharset ==
    \/ CharsetReader
    \/ ReadByte
    \/ ReadInput

SpecCharset == InitCharset /\ [][NextCharset]_vars

---------------------------------------------------------------------------
\* Properties.

Done == pc = "done"
FannedOut == reqs # <<>>
Distinct(s) == \A j, k \in 1..Len(s) : j # k => s[j] # s[k]
OkCalls == {k \in 1..Len(log) : log[k].err = NoErr}
KeysOf(k) == DOMAIN log[k].rsp.Servicos
ReturnedKeys == DOMAIN ret.rsp.Servicos

\* C1: for every non-nil request, CalcularFrete issues one network call per
\* requested service, each for that one service, if and only if the request
\* has more than one service and its Mode is Auto with an empty CdEmpresa or
\* is Single; in every other case it issues exactly one network call, for
\* all the requested services.
C1_FanOutIffCondition ==
    (Done /\ arg = "req") =>
        IF /\ Len(req.Servicos) > 1
           /\ \/ (req.Mode = RequestModeAuto /\ req.CdEmpresa = "")
              \/ req.Mode = RequestModeSingle
        THEN /\ FannedOut
             /\ Len(sent) = Len(req.Servicos)
             /\ \A k \in 1..Len(sent) : sent[k].nCdServico = req.Servicos[k]
        ELSE /\ ~FannedOut
             /\ Len(sent) = 1
             /\ sent[1].nCdServico = Join(req.Servicos)

\* C1 witness: a request in Single mode with credentials and two services
\* returned after two network calls.
C1_Witness ==
    /\ Done /\ arg = "req"
    /\ req.Mode = RequestModeSingle /\ req.CdEmpresa # ""
    /\ Len(req.Servicos) = 2
    /\ Len(sent) = 2

\* C2: a fan-out issues exactly one network call per entry of req.Servicos,
\* in the order of req.Servicos, each carrying exactly that one service
\* identifier; a call is issued only when every earlier one has returned;
\* no sub-call fans out again, and CalcularFrete returns when the last of
\* those calls has returned.
C2_SequentialFanOut ==
    /\ pc # "nested"
    /\ Len(sent) = Len(log) + (IF InFlight THEN 1 ELSE 0)
    /\ FannedOut =>
          /\ Len(sent) <= Len(req.Servicos)
          /\ \A k \in 1..Len(sent) : sent[k].nCdServico = req.Servicos[k]
          /\ Done <=> Len(log) = Len(req.Servicos)

\* C2 witness: a fan-out over two distinct services returned after two calls
\* the first of which failed.
C2_Witness ==
    /\ Done /\ FannedOut
    /\ Distinct(req.Servicos)
    /\ Len(log) = 2
    /\ log[1].err # NoErr

\* C3: a fan-out returns the error of its last sub-call, and so a non-nil
\* error exactly when the last sub-call failed; the failure of an earlier
\* sub-call does not end the loop and is not returned.
C3_LastErrorOnly ==
    (Done /\ FannedOut) =>
        /\ Len(log) = Len(reqs)
        /\ ret.err = log[Len(log)].err
        /\ \A k \in 1..(Len(log) - 1) : log[k].err # NoErr => ret.err # log[k].err

\* C3 witness: a fan-out whose first sub-call failed and whose last succeeded
\* returned without an error.
C3_Witness ==
    /\ Done /\ FannedOut
    /\ log[1].err # NoErr
    /\ log[Len(log)].err = NoErr
    /\ ret.err = NoErr

\* The entries of the sub-calls that succeeded, a later call winning a key.
LastWith(x) ==
    CHOOSE k \in OkCalls :
        /\ x \in KeysOf(k)
        /\ \A j \in OkCalls : x \in KeysOf(j) => j <= k
ExpectedAggregate ==
    [x \in UNION {KeysOf(k) : k \in OkCalls} |-> log[LastWith(x)].rsp.Servicos[x]]

\* C4: a fan-out returns a non-nil FreteResponse, with or without an error,
\* whose map holds exactly the entries returned by the sub-calls that
\* succeeded, a later sub-call overwriting an earlier one on an equal key,
\* and nothing from a failed sub-call.
C4_AggregateOfSuccesses ==
    (Done /\ FannedOut) =>
        /\ ~ret.rsp.nil
        /\ ret.rsp.Servicos = ExpectedAggregate

\* C4 witness: a fan-out returned after two successful sub-calls that gave
\* different entries for the same key.
C4_Witness ==
    /\ Done /\ FannedOut
    /\ OkCalls = {1, 2}
    /\ \E x \in KeysOf(1) \cap KeysOf(2) :
          log[1].rsp.Servicos[x] # log[2].rsp.Servicos[x]

\* The carrier answered every successful sub-call with records of the one
\* service that sub-call asked for.
CarrierEchoes ==
    \A k \in OkCalls : \A x \in KeysOf(k) :
        log[k].rsp.Servicos[x].Tipo = log[k].params.nCdServico

\* C5 as stated: after a fan-out over N distinct services, for any carrier
\* responses, the merged response has at most N keys and every key is the
\* service identifier of one of the fan-out clones.
C5_KeysAreRequested ==
    (Done /\ FannedOut /\ Distinct(req.Servicos)) =>
        /\ Cardinality(ReturnedKeys) <= Len(reqs)
        /\ \A x \in ReturnedKeys : \E k \in 1..Len(reqs) : x = reqs[k].Servicos[1]

\* C5 amended: after a fan-out over N distinct services the keys of the
\* merged response are exactly the service codes the carrier returned in the
\* sub-calls that succeeded; when each of those answers holds only records
\* of the service its sub-call asked for, the merged response has at most N
\* keys and every key is the service identifier of one of the clones.
C5_KeysAreCarrierCodes ==
    (Done /\ FannedOut /\ Distinct(req.Servicos)) =>
        /\ ReturnedKeys = {log[k].rsp.Servicos[x].Tipo : <<k, x>> \in
                              {<<k, x>> \in OkCalls \X Services : x \in KeysOf(k)}}
        /\ CarrierEchoes =>
              /\ Cardinality(ReturnedKeys) <= Len(reqs)
              /\ \A x \in ReturnedKeys : \E k \in 1..Len(reqs) : x = reqs[k].Servicos[1]

\* C5 witness: a fan-out over two distinct services returned two keys, each
\* sub-call answered with a record of its own service.
C5_Witness ==
    /\ Done /\ FannedOut /\ Distinct(req.Servicos)
    /\ OkCalls = {1, 2}
    /\ CarrierEchoes
    /\ Cardinality(ReturnedKeys) = 2

\* C6: when FallbackFunc is set and AlwaysUseFallback is true, CalcularFrete
\* calls the substitute and issues no live network call.
C6_FallbackReplacesNetwork ==
    (cfg.FallbackFunc # NoFunc /\ cfg.AlwaysUseFallback) => sent = <<>>

\* C7: when the context carries no deadline and GlobalTimeout is set, no
\* network call is still in flight after more than GlobalTimeout.
C7_GlobalTimeoutBounds ==
    (InFlight /\ ~ctx.deadline /\ cfg.GlobalTimeout > 0) => elapsed <= cfg.GlobalTimeout

\* C8: a CalcularFrete call whose context was done before its last network
\* call had completed returns a non-nil error.
C8_CancelledReturnsError ==
    (Done /\ arg = "req" /\ ctx.done) => ret.err # NoErr

\* C9: on the single-call path a network call whose response has a non-2xx
\* status returns a non-nil error and no response, whatever the body holds.
C9_Non2xxIsError ==
    [][(/\ pc = "body" /\ arg = "req" /\ ~FannedOut
        /\ (status < 200 \/ status > 299)
        /\ pc' = "done")
          => (ret'.err # NoErr /\ ret'.rsp.nil)]_vars

\* C10: after any sequence of SetServicos and AppendServico calls starting
\* from NewFreteRequest, req.Servicos holds no identifier twice.
C10_ServicosUnique == Distinct(req.Servicos)

\* C11: whenever CalcularFrete returns a nil error, the request's Servicos
\* list was not empty.
C11_EmptyNeverSucceeds ==
    (Done /\ arg = "req" /\ ret.err = NoErr) => req.Servicos # <<>>

\* The cServico elements of a buffered body, in document order.
Records(toks) ==
    LET recs == SelectSeq(toks, LAMBDA t : t.t = "rec")
    IN  [k \in 1..Len(recs) |-> recs[k].rec]

\* The text of an int field is a decimal number, or empty.
Numeric(s) ==
    \/ s = <<>>
    \/ /\ s[1] \in Digits \cup {"-", "+"}
       /\ \E k \in 1..Len(s) : s[k] \in Digits
       /\ \A k \in 2..Len(s) : s[k] \in Digits

\* The body is a whole Servicos document whose int fields are all numeric.
WellFormed(toks) ==
    /\ Len(toks) >= 2
    /\ toks[1].t = "start" /\ toks[1].name = "Servicos"
    /\ toks[Len(toks)].t = "end"
    /\ \A k \in 1..Len(Records(toks)) :
          Numeric(Records(toks)[k].PrazoEntrega) /\ Numeric(Records(toks)[k].Erro)

\* The network call of a single-call request returned what it decoded.
Parsed == Done /\ arg = "req" /\ ~FannedOut /\ Len(log) = 1

\* C12: for every cServico of a well-formed document the ServicoResponse
\* built for it has a nil Erro when the record's error code is 0 and
\* otherwise an Erro whose Codigo is that integer and an ErroMsg equal to the
\* record's MsgErro; the call returns a nil error whatever the codes are, and
\* the last record of each service code is the entry returned under it.
C12_ErroRoundTrip ==
    (Parsed /\ WellFormed(rrbuf)) =>
        /\ ret.err = NoErr /\ ~ret.rsp.nil
        /\ Len(built) = Len(Records(rrbuf))
        /\ \A k \in 1..Len(built) :
              LET rec  == Records(rrbuf)[k]
                  code == ParseInt(rec.Erro).n
              IN  /\ code = 0 => built[k].Erro = <<>>
                  /\ code # 0 => (built[k].Erro = <<code>> /\ built[k].ErroMsg = rec.MsgErro)
                  /\ rec = RecAreaDeRisco => built[k].Erro = <<11>>
                  /\ rec = RecCepInvalido => built[k].Erro = <<0 - 3>>
                  /\ rec = RecOK => built[k].Erro = <<>>
                  /\ (\A j \in (k + 1)..Len(built) : Records(rrbuf)[j].Codigo # rec.Codigo)
                        => ret.rsp.Servicos[rec.Codigo] = built[k]

\* C12 witness: a document with a record of code 011 and a record of code 0
\* was decoded and returned without an error.
C12_Witness ==
    /\ Parsed /\ WellFormed(rrbuf)
    /\ Records(rrbuf) = <<RecAreaDeRisco, RecOK>>
    /\ ret.err = NoErr
    /\ ret.rsp.Servicos[SvcPACVarejo].Erro = <<11>>
    /\ ret.rsp.Servicos[SvcPACVarejo].ErroMsg = RecAreaDeRisco.MsgErro
    /\ ret.rsp.Servicos[SvcSEDEXVarejo].Erro = <<>>

\* C13: in every ServicoResponse CalcularFrete returns, a present Erro comes
\* with a zero Preco and a zero PrazoEntregaDias.
C13_ErroMeansZero ==
    Done =>
        \A x \in ReturnedKeys :
            ret.rsp.Servicos[x].Erro # <<>> =>
                /\ ret.rsp.Servicos[x].Preco.value = 0
                /\ ret.rsp.Servicos[x].PrazoEntregaDias = 0

\* Two names are equal up to the case of their ASCII letters.
SameLetter(x, y) ==
    \/ x = y
    \/ \E n \in 1..Len(UpperCase) :
          {x, y} = {UpperCase[n], LowerCase[n]}
SameName(a, b) ==
    /\ Len(a) = Len(b)
    /\ \A k \in 1..Len(a) : SameLetter(a[k], b[k])

\* ISO-8859-1 and its aliases, and the names of UTF-8.
Latin1Names ==
    {<<"I", "S", "O", "-", "8", "8", "5", "9", "-", "1">>,
     <<"l", "a", "t", "i", "n", "1">>,
     <<"l", "1">>,
     <<"I", "B", "M", "8", "1", "9">>,
     <<"C", "P", "8", "1", "9">>,
     <<"i", "s", "o", "-", "i", "r", "-", "1", "0", "0">>,
     <<"c", "s", "I", "S", "O", "L", "a", "t", "i", "n", "1">>,
     <<"I", "S", "O", "_", "8", "8", "5", "9", "-", "1">>,
     <<"I", "S", "O", "_", "8", "8", "5", "9", "-", "1", ":", "1", "9", "8", "7">>}
UTF8Names == {<<>>, <<"U", "T", "F", "-", "8">>}

\* C14: once CharsetReader has returned, matching names without regard to
\* case: for the empty name and UTF-8 the reader is the input itself, which
\* delivers the input's bytes unchanged, and the error is nil; for
\* ISO-8859-1 and each of its aliases the reader is the ISO-8859-1 decoder
\* and the error is nil; for every other name the reader is nil and the
\* error names the charset as it was declared.
C14_CharsetSelection ==
    reader # "unset" =>
        /\ (\E n \in UTF8Names : SameName(charset, n)) =>
              /\ reader = "input" /\ rerr = <<>>
              /\ delivered = SubSeq(input, 1, pos)
        /\ (\E n \in Latin1Names : SameName(charset, n)) =>
              /\ reader = "iso88591" /\ rerr = <<>>
        /\ (\A n \in UTF8Names \cup Latin1Names : ~SameName(charset, n)) =>
              /\ reader = "nil" /\ rerr # <<>>
              /\ SubSeq(rerr, 2, Len(rerr)) = charset
              /\ delivered = <<>>

\* C14 witness: the name LATIN1 selected the ISO-8859-1 decoder, which has
\* delivered a byte.
C14_Witness ==
    /\ charset = <<"L", "A", "T", "I", "N", "1">>
    /\ reader = "iso88591"
    /\ delivered # <<>>

\* The code points of a UTF-8 byte sequence of one- and two-byte runes;
\* <<-1>> marks a sequence that is not such an encoding.
RECURSIVE DecodeUTF8(_)
DecodeUTF8(bs) ==
    IF bs = <<>> THEN <<>>
    ELSE IF bs[1] < 128 THEN <<bs[1]>> \o DecodeUTF8(Tail(bs))
    ELSE IF /\ bs[1] >= 194 /\ bs[1] < 224
            /\ Len(bs) >= 2 /\ bs[2] >= 128 /\ bs[2] < 192
    THEN <<(bs[1] - 192) * 64 + (bs[2] - 128)>> \o DecodeUTF8(Tail(Tail(bs)))
    ELSE <<0 - 1>>

\* How many bytes the runes of an input take in UTF-8.
RECURSIVE EncodedLen(_)
EncodedLen(bs) ==
    IF bs = <<>> THEN 0
    ELSE (IF bs[1] < 128 THEN 1 ELSE 2) + EncodedLen(Tail(bs))

\* C15: the bytes CharsetISO88591er.ReadByte has returned, followed by what
\* its buffer still holds, are the UTF-8 encoding of the input bytes read so
\* far, one byte for a byte below 0x80 and two for any other; the buffer
\* never holds more than the second byte of one expansion; an input byte is
\* read only when the buffer is empty; and the reader's error is returned
\* only when the buffer is empty and every input byte has been delivered.
C15_Latin1ToUTF8 ==
    /\ [](reader = "iso88591" =>
            /\ DecodeUTF8(delivered \o buf) = SubSeq(input, 1, pos)
            /\ Len(delivered) + Len(buf) = EncodedLen(SubSeq(input, 1, pos))
            /\ Len(buf) <= 1
            /\ rderr # "" =>
                  /\ buf = <<>>
                  /\ pos = Len(input)
                  /\ DecodeUTF8(delivered) = input)
    /\ [][(reader = "iso88591" /\ pos' # pos) => buf = <<>>]_vars
    /\ [][(reader = "iso88591" /\ rderr' # rderr) => (buf = <<>> /\ delivered' = delivered)]_vars

\* C15 witness: the input A, e-acute, 0x80 was read to its end and came out
\* as 41 C3 A9 C2 80.
C15_Witness ==
    /\ reader = "iso88591"
    /\ rderr = "EOF"
    /\ input = <<65, 233, 128>>
    /\ delivered = <<65, 195, 169, 194, 128>>

\* The last cServico of the buffered body that carries service code x.
LastRecord(x) ==
    CHOOSE k \in 1..Len(Records(rrbuf)) :
        /\ Records(rrbuf)[k].Codigo = x
        /\ \A j \in (k + 1)..Len(Records(rrbuf)) : Records(rrbuf)[j].Codigo # x

\* C16: a request that does not meet the fan-out condition issues exactly
\* one network call, whose nCdServico is the requested identifiers joined by
\* commas in request order (04014,04510 for the default services), and
\* returns what that call returned: on success a map with one entry per
\* distinct service code among the document's cServico elements, the entry
\* built from the last element with that code.
C16_CombinedCall ==
    (Done /\ arg = "req" /\ ~FanOutCond(req)) =>
        /\ ~FannedOut
        /\ Len(sent) = 1 /\ Len(log) = 1
        /\ sent[1].nCdServico = Join(req.Servicos)
        /\ req.Servicos = <<SvcSEDEXVarejo, SvcPACVarejo>> => sent[1].nCdServico = "04014,04510"
        /\ req.Servicos = <<SvcPACVarejo, SvcSEDEXVarejo>> => sent[1].nCdServico = "04510,04014"
        /\ req.Servicos = <<SvcSEDEXVarejo>> => sent[1].nCdServico = "04014"
        /\ ret.rsp = log[1].rsp /\ ret.err = log[1].err
        /\ ret.err = NoErr =>
              /\ ReturnedKeys = {Records(rrbuf)[k].Codigo : k \in 1..Len(Records(rrbuf))}
              /\ \A x \in ReturnedKeys : ret.rsp.Servicos[x] = built[LastRecord(x)]

\* C16 witness: the default request with credentials sent one call with
\* nCdServico=04014,04510 and got one entry for two cServico elements of the
\* same service code.
C16_Witness ==
    /\ Done /\ arg = "req"
    /\ req = [NewFreteRequest EXCEPT !.CdEmpresa = "08082650"]
    /\ sent = <<[nCdServico |-> "04014,04510", nCdEmpresa |-> <<"08082650">>]>>
    /\ ret.err = NoErr
    /\ Len(Records(rrbuf)) = 2
    /\ Cardinality(ReturnedKeys) = 1

\* The buffered body opens with an element other than Servicos, or one of
\* its cServico elements has a PrazoEntrega that is not a number.
Malformed(toks) ==
    \/ toks # <<>> /\ toks[1].name # "Servicos"
    \/ \E k \in 1..Len(Records(toks)) : ~Numeric(Records(toks)[k].PrazoEntrega)

C18_StatelessCall ==
    /\ [][(pc # "idle" \/ pc' # "idle") => (req' = req /\ cfg' = cfg)]_vars
    /\ []((Done /\ arg = "req") =>
            IF Len(req.Servicos) > 1
               /\ (req.Mode = RequestModeSingle
                      \/ (req.Mode = RequestModeAuto /\ req.CdEmpresa = ""))
            THEN /\ Len(log) = Len(req.Servicos)
                 /\ ret = [rsp |-> [nil |-> FALSE, Servicos |-> ExpectedAggregate],
                           err |-> log[Len(log)].err]
            ELSE /\ Len(log) = 1
                 /\ ret = [rsp |-> log[1].rsp, err |-> log[1].err])

\* C18 witness: a fan-out over the two default services in Single mode
\* returned an error, the request still holding both services.
C18_Witness ==
    /\ Done /\ arg = "req" /\ FannedOut
    /\ req = [NewFreteRequest EXCEPT !.Mode = RequestModeSingle]
    /\ Len(log) = 2
    /\ ret.err # NoErr

====
